---- MODULE Spec2Model ----
(***************************************************************************)
(* Model of the Neo Exchange API (src/main.py, src/schemas.py): the price  *)
(* reconciliation of get_markets / get_coin, the history passthrough and   *)
(* the portfolio store endpoints.                                          *)
(*                                                                         *)
(* Conventions.                                                            *)
(*  - A Python Optional value is a sequence of length <= 1: Null is None,  *)
(*    Some(x) is the value x.                                              *)
(*  - A Python str that the code transforms (the coin symbol) is a         *)
(*    sequence of one-character strings, so that upper() and the "USDT"    *)
(*    suffix are computed, not looked up.                                  *)
(*  - A float is an integer; the inputs are chosen so that the one         *)
(*    division of the code, (price - open) / open * 100, is exact.         *)
(*  - Each worker of the HTTP server handles one request at a time; its    *)
(*    request, locals and response live in req[w].                         *)
(***************************************************************************)
EXTENDS Integers, Sequences, FiniteSets, TLC

VARIABLES
    req,         \* worker -> the request it is handling (locals, response)
    portfolios,  \* the "portfolio" collection: id -> document
    clock,       \* datetime.now(timezone.utc)
    nextRid,     \* tag of the next element a request appends (1 + appends accepted)
    acked        \* the append requests that returned {"ok": True}

vars == <<req, portfolios, clock, nextRid, acked>>

\* ------------------------------------------------------------------ bounds

MaxRows == 2        \* longest aggregator coin list in Spec
MaxRowsInput == 1   \* longest aggregator coin list in SpecInput
MaxReq == 3         \* appends accepted in SpecStore
MaxReqInput == 2    \* appends accepted in SpecInput
BaseTx == 18        \* transactions added one after the other in SpecTx
MaxTx == 22         \* appends accepted in SpecTx
MaxClock == 2       \* last instant the clock reaches

\* ------------------------------------------------------- program constants

MinPage == 1        \* Query(1, ge=1)
MinPerPage == 1     \* Query(30, ge=1, le=250)
MaxPerPage == 250
MinDays == 1        \* Query(7, ge=1, le=365)
MaxDays == 365
SummaryTxLimit == 20  \* sorted(...)[:20]

\* ------------------------------------------------------------------ values

Null == <<>>
Some(x) == <<x>>
Val(o) == o[1]

Workers == {"w1", "w2"}

\* The request a worker holds when it handles none.
Idle ==
    [op |-> "none", pc |-> "idle", status |-> 0, calls |-> 0,
     in |-> <<>>, cg |-> <<>>, results |-> <<>>, trace |-> <<>>, item |-> <<>>,
     body |-> <<>>]

\* A finished request: the HTTP status and the JSON body of the response.
Done(r, status, body) ==
    [r EXCEPT !.pc = "done", !.status = status, !.body = body]

\* ------------------------------------------------------------ str helpers

UpperChar(c) ==
    CASE c = "b" -> "B"
      [] c = "t" -> "T"
      [] c = "c" -> "C"
      [] c = "o" -> "O"
      [] c = "g" -> "G"
      [] c = "e" -> "E"
      [] OTHER -> c

\* str.upper()
Upper(s) == [i \in 1..Len(s) |-> UpperChar(s[i])]

USDT == <<"U", "S", "D", "T">>

\* binance_symbol = f"{symbol_uc}USDT" if symbol_uc else None, without upper().
BinanceSymbolNoUpper(symbol) ==
    IF symbol # <<>> THEN Some(symbol \o USDT) ELSE Null

\* symbol_uc = str(coin.get("symbol", "")).upper()
\* binance_symbol = f"{symbol_uc}USDT" if symbol_uc else None
BinanceSymbol(symbol) ==
    LET symbol_uc == Upper(symbol)
    IN  IF symbol_uc # <<>> THEN Some(symbol_uc \o USDT) ELSE Null

\* ------------------------------------------------------- upstream payloads

\* A field of the ticker's JSON object: absent, text float() rejects, or a
\* number's text.
Absent == [kind |-> "absent", val |-> 0]
Bad == [kind |-> "bad", val |-> 0]
Num(n) == [kind |-> "num", val |-> n]

LastPrices == {Absent, Bad, Num(0), Num(3)}
OpenPrices == {Absent, Bad, Num(0), Num(2)}

\* What binance_24h returns: None (non-200, timeout, any exception) or the
\* ticker object.
TickerResponses ==
    {Null} \cup {Some([lastPrice |-> l, openPrice |-> o]) :
                    l \in LastPrices, o \in OpenPrices}

\* Entries of the aggregator's /coins/markets list.
Coins ==
    { [id |-> "bitcoin", symbol |-> <<"b", "t", "c">>,
       current_price |-> Some(7), price_change_percentage_24h |-> Some(5)],
      [id |-> "dogecoin", symbol |-> <<"D", "o", "g", "e">>,
       current_price |-> Some(9), price_change_percentage_24h |-> Null],
      [id |-> "nosym", symbol |-> <<>>,
       current_price |-> Some(4), price_change_percentage_24h |-> Some(1)] }

CoinLists(n) == UNION {[1..k -> Coins] : k \in 0..n}

\* ------------------------------------------------------------ reconciliation

\* ((price - open_price) / open_price) * 100.0; ZeroDivisionError when
\* open_price is 0.
PctChange(price, open_price) ==
    IF open_price = 0 THEN [ok |-> FALSE, val |-> 0]
    ELSE [ok |-> TRUE, val |-> ((price - open_price) * 100) \div open_price]

\* The ticker block with the "if open_price:" guard left out.
TickerOverrideNoGuard(b, price, change) ==
    LET keep == [price |-> price, change |-> change, divided |-> FALSE]
    IN  IF b = Null THEN keep
        ELSE IF Val(b).lastPrice.kind # "num" THEN keep
        ELSE IF Val(b).openPrice.kind = "bad"
             THEN [keep EXCEPT !.price = Some(Val(b).lastPrice.val)]
        ELSE LET p == Val(b).lastPrice.val
                 o == Val(b).openPrice.val
                 c == PctChange(p, o)
             IN  [price |-> Some(p),
                  change |-> IF c.ok THEN Some(c.val) ELSE change,
                  divided |-> TRUE]

\* The ticker block with price assigned only once both fields have parsed.
TickerOverrideAllOrNothing(b, price, change) ==
    LET keep == [price |-> price, change |-> change, divided |-> FALSE]
    IN  IF b = Null THEN keep
        ELSE IF Val(b).lastPrice.kind # "num" THEN keep
        ELSE IF Val(b).openPrice.kind = "bad" THEN keep
        ELSE LET p == Val(b).lastPrice.val
                 o == Val(b).openPrice.val
             IN  IF o # 0
                 THEN [price |-> Some(p), change |-> Some(PctChange(p, o).val),
                       divided |-> TRUE]
                 ELSE [keep EXCEPT !.price = Some(p)]

\* The ticker block that never reads the ticker.
TickerOverrideIgnored(b, price, change) ==
    [price |-> price, change |-> change, divided |-> FALSE]

\* if b and "lastPrice" in b:
\*     try:
\*         price = float(b.get("lastPrice"))
\*         open_price = float(b.get("openPrice", 0))
\*         if open_price:
\*             change = ((price - open_price) / open_price) * 100.0
\*     except Exception:
\*         pass
\* price and change come in with their fallback values. divided records
\* whether the division was evaluated.
TickerOverride(b, price, change) ==
    LET keep == [price |-> price, change |-> change, divided |-> FALSE]
    IN  IF b = Null THEN keep
        ELSE IF Val(b).lastPrice.kind = "absent" THEN keep
        ELSE IF Val(b).lastPrice.kind = "bad" THEN keep
        ELSE LET p == Val(b).lastPrice.val
             IN  IF Val(b).openPrice.kind = "bad"
                 THEN [keep EXCEPT !.price = Some(p)]
                 ELSE LET o == Val(b).openPrice.val
                      IN  IF o # 0
                          THEN [price |-> Some(p),
                                change |-> Some(PctChange(p, o).val),
                                divided |-> TRUE]
                          ELSE [keep EXCEPT !.price = Some(p)]

\* results.append(row), as a prepend.
AppendRowFront(results, row) == <<row>> \o results

\* results.append({...})
AppendRow(results, row) == Append(results, row)

\* ------------------------------------------------------------------ markets

\* get_markets up to the loop: the Query bounds (a 422 before the handler
\* runs), then coingecko_markets (a 502 when it raises).
GetMarketsStart(w, page, per_page, cgOk, cg) ==
    /\ req[w].pc = "idle"
    /\ LET r == [Idle EXCEPT !.op = "get_markets",
                             !.in = [page |-> page, per_page |-> per_page]]
       IN  req' = [req EXCEPT ![w] =
             IF page < MinPage \/ per_page < MinPerPage \/ per_page > MaxPerPage
             THEN Done(r, 422, <<>>)
             ELSE IF ~cgOk
             THEN Done([r EXCEPT !.calls = 1], 502, <<>>)
             ELSE [r EXCEPT !.pc = "rows", !.calls = 1, !.cg = cg]]
    /\ UNCHANGED <<portfolios, clock, nextRid, acked>>

\* One iteration of "for coin in cg"; b is what binance_24h returns.
GetMarketsRow(w, b) ==
    /\ req[w].pc = "rows"
    /\ Len(req[w].trace) < Len(req[w].cg)
    /\ LET r == req[w]
           coin == r.cg[Len(r.trace) + 1]
           binance_symbol == BinanceSymbol(coin.symbol)
           asked == binance_symbol # Null
           o == IF asked
                THEN TickerOverride(b, coin.current_price,
                                    coin.price_change_percentage_24h)
                ELSE [price |-> coin.current_price,
                      change |-> coin.price_change_percentage_24h,
                      divided |-> FALSE]
           row == [id |-> coin.id, symbol |-> coin.symbol,
                   current_price |-> o.price,
                   price_change_percentage_24h |-> o.change,
                   binance_symbol |-> binance_symbol]
       IN  req' = [req EXCEPT ![w] =
             [r EXCEPT !.results = AppendRow(r.results, row),
                       !.calls = IF asked THEN @ + 1 ELSE @,
                       !.trace = Append(@, [asked |-> asked,
                                            b |-> IF asked THEN b ELSE Null,
                                            divided |-> o.divided])]]
    /\ UNCHANGED <<portfolios, clock, nextRid, acked>>

\* return results
GetMarketsReturn(w) ==
    /\ req[w].pc = "rows"
    /\ Len(req[w].trace) = Len(req[w].cg)
    /\ req' = [req EXCEPT ![w] = Done(req[w], 200, req[w].results)]
    /\ UNCHANGED <<portfolios, clock, nextRid, acked>>

\* ------------------------------------------------------------- simple price

\* The aggregator's USD quote of a coin id.
UsdPrice(id) ==
    CASE id = "bitcoin" -> 50000
      [] id = "ethereum" -> 3000
      [] id = "dogecoin" -> 1
      [] OTHER -> 8

\* What coingecko_price(coin_ids) can produce: an exception (ok = FALSE), or
\* {k: float(v.get("usd", 0)) for k, v in data.items()} for the ids the
\* aggregator knows among those asked.
PriceOutcomes(coin_ids) ==
    {[ok |-> FALSE, prices |-> <<>>]} \cup
    {[ok |-> TRUE, prices |-> [k \in known |-> UsdPrice(k)]] :
        known \in SUBSET coin_ids}

\* prices.get(coin_id)
PriceGet(prices, coin_id) ==
    IF coin_id \in DOMAIN prices THEN Some(prices[coin_id]) ELSE Null

\* ---------------------------------------------------------------- coin detail

\* if price is None:
NeedsFallback(price) == price = Null

\* get_coin: the detail fetch (a 502 when it raises), the ticker block with
\* price = change = None, then the simple-price fallback when price is None.
\* data is the detail payload, b what binance_24h returns, sp what
\* coingecko_price([coin_id]) produces.
GetCoin(w, dataOk, data, b, sp) ==
    /\ req[w].pc = "idle"
    /\ LET coin_id == data.id
           r == [Idle EXCEPT !.op = "get_coin", !.in = [coin_id |-> coin_id],
                             !.calls = 1]
           symbol_uc == Upper(data.symbol)
           asked == symbol_uc # <<>>
           o == IF asked THEN TickerOverride(b, Null, Null)
                ELSE [price |-> Null, change |-> Null, divided |-> FALSE]
           fallback == NeedsFallback(o.price)
           price == IF ~fallback THEN o.price
                    ELSE IF sp.ok THEN PriceGet(sp.prices, coin_id)
                    ELSE Null
           ncalls == 1 + (IF asked THEN 1 ELSE 0) + (IF fallback THEN 1 ELSE 0)
       IN  req' = [req EXCEPT ![w] =
             IF ~dataOk THEN Done(r, 502, <<>>)
             ELSE Done([r EXCEPT !.calls = ncalls,
                                 !.trace = <<[asked |-> asked,
                                              b |-> IF asked THEN b ELSE Null,
                                              divided |-> o.divided,
                                              fallback |-> fallback,
                                              sp |-> sp]>>],
                       200,
                       [id |-> data.id, symbol |-> data.symbol,
                        current_price |-> price,
                        price_change_percentage_24h |-> o.change])]
    /\ UNCHANGED <<portfolios, clock, nextRid, acked>>

\* -------------------------------------------------------------------- history

\* days: int = Query(7, ge=1, le=365), without the upper bound.
DaysValidNoMax(days) == days >= MinDays

\* days: int = Query(7, ge=1, le=365)
DaysValid(days) == days >= MinDays /\ days <= MaxDays

\* coin_history: the Query bounds (a 422 before the handler runs), then the
\* market_chart fetch; any exception is a 502.
CoinHistory(w, days, ok) ==
    /\ req[w].pc = "idle"
    /\ LET r == [Idle EXCEPT !.op = "coin_history", !.in = [days |-> days]]
       IN  req' = [req EXCEPT ![w] =
             IF ~DaysValid(days) THEN Done(r, 422, <<>>)
             ELSE IF ok THEN Done([r EXCEPT !.calls = 1], 200, <<>>)
             ELSE Done([r EXCEPT !.calls = 1], 502, <<>>)]
    /\ UNCHANGED <<portfolios, clock, nextRid, acked>>

\* ------------------------------------------------------------ portfolio store

\* The ids insert_one can hand out, and the ids requests ask for: "p9" is a
\* well-formed id of no document, "bad" is not an ObjectId.
PortfolioIds == {"p1"}
ObjectIds == {"p1", "p9"}
PidInputs == {"p1", "p9", "bad"}

HoldingInputs ==
    { [coin_id |-> "bitcoin", symbol |-> "btc", amount |-> 2],
      [coin_id |-> "ethereum", symbol |-> "eth", amount |-> 10],
      [coin_id |-> "bitcoin", symbol |-> "btc", amount |-> -1] }

TxTypeInputs == {"deposit", "withdrawal", "bogus"}

TxInput(type) ==
    [type |-> type, coin_id |-> "bitcoin", symbol |-> "btc", amount |-> 1,
     tx_hash |-> Null]

\* to_object_id: ObjectId(id_str) raises for a malformed id (a 400).
IsObjectId(pid) == pid \in ObjectIds

\* Portfolio(name=..., address=...) as create_document stores it: holdings
\* empty, no transactions yet, both timestamps the creation time.
NewDocument(name, now) ==
    [name |-> name, holdings |-> <<>>, transactions |-> <<>>,
     created_at |-> now, updated_at |-> now]

\* create_portfolio
CreatePortfolio(w) ==
    /\ req[w].pc = "idle"
    /\ \E id \in PortfolioIds \ DOMAIN portfolios :
          /\ portfolios' = [p \in DOMAIN portfolios \cup {id} |->
                              IF p = id THEN NewDocument("main", clock)
                              ELSE portfolios[p]]
          /\ req' = [req EXCEPT ![w] =
                Done([Idle EXCEPT !.op = "create_portfolio"], 200, [id |-> id])]
    /\ UNCHANGED <<clock, nextRid, acked>>

\* Holding.amount: float = Field(..., ge=0)
AmountValid(amount) == amount >= 0

\* {"$push": {field: x}} written as {"$set": {field: [x]}}.
ArraySet(array, x) == <<x>>

\* {"$push": {field: x}}: the store appends x to the array as it is now.
ArrayPush(array, x) == Append(array, x)

\* add_holding up to the update: find_one (400 for a malformed id, 404 for a
\* missing document), then Holding(...), whose ValidationError for a
\* negative amount nothing catches (a 500), then created_at.
AddHoldingFind(w, pid, h) ==
    /\ req[w].pc = "idle"
    /\ LET r == [Idle EXCEPT !.op = "add_holding",
                             !.in = [pid |-> pid, amount |-> h.amount]]
       IN  req' = [req EXCEPT ![w] =
             IF ~IsObjectId(pid) THEN Done(r, 400, <<>>)
             ELSE IF pid \notin DOMAIN portfolios THEN Done(r, 404, <<>>)
             ELSE IF ~AmountValid(h.amount) THEN Done(r, 500, <<>>)
             ELSE [r EXCEPT !.pc = "push",
                            !.item = [coin_id |-> h.coin_id, symbol |-> h.symbol,
                                      amount |-> h.amount, created_at |-> clock,
                                      rid |-> nextRid]]]
    /\ nextRid' = IF req'[w].pc = "push" THEN nextRid + 1 ELSE nextRid
    /\ UNCHANGED <<portfolios, clock, acked>>

\* add_holding's update_one ($push holdings, $set updated_at) and its
\* return {"ok": True}.
AddHoldingPush(w) ==
    /\ req[w].pc = "push" /\ req[w].op = "add_holding"
    /\ LET pid == req[w].in.pid
       IN  portfolios' =
             [portfolios EXCEPT ![pid] =
                [@ EXCEPT !.holdings = ArrayPush(@, req[w].item),
                          !.updated_at = clock]]
    /\ req' = [req EXCEPT ![w] = Done(req[w], 200, [ok |-> TRUE])]
    /\ acked' = acked \cup {[rid |-> req[w].item.rid, pid |-> req[w].in.pid,
                             field |-> "holdings"]}
    /\ UNCHANGED <<clock, nextRid>>

\* tx.type in ("deposit", "withdrawal")
TxTypeValid(type) == type \in {"deposit", "withdrawal"}

\* add_transaction up to the update: the type check (400), find_one (400 for
\* a malformed id, 404 for a missing document), then the timestamp.
AddTransactionFind(w, pid, tx) ==
    /\ req[w].pc = "idle"
    /\ LET r == [Idle EXCEPT !.op = "add_transaction",
                             !.in = [pid |-> pid, type |-> tx.type]]
       IN  req' = [req EXCEPT ![w] =
             IF ~TxTypeValid(tx.type) THEN Done(r, 400, <<>>)
             ELSE IF ~IsObjectId(pid) THEN Done(r, 400, <<>>)
             ELSE IF pid \notin DOMAIN portfolios THEN Done(r, 404, <<>>)
             ELSE [r EXCEPT !.pc = "push",
                            !.item = [type |-> tx.type, coin_id |-> tx.coin_id,
                                      symbol |-> tx.symbol, amount |-> tx.amount,
                                      tx_hash |-> tx.tx_hash, timestamp |-> clock,
                                      rid |-> nextRid]]]
    /\ nextRid' = IF req'[w].pc = "push" THEN nextRid + 1 ELSE nextRid
    /\ UNCHANGED <<portfolios, clock, acked>>

\* add_transaction's update_one ($push transactions, $set updated_at) and
\* its return {"ok": True}.
AddTransactionPush(w) ==
    /\ req[w].pc = "push" /\ req[w].op = "add_transaction"
    /\ LET pid == req[w].in.pid
       IN  portfolios' =
             [portfolios EXCEPT ![pid] =
                [@ EXCEPT !.transactions = ArrayPush(@, req[w].item),
                          !.updated_at = clock]]
    /\ req' = [req EXCEPT ![w] = Done(req[w], 200, [ok |-> TRUE])]
    /\ acked' = acked \cup {[rid |-> req[w].item.rid, pid |-> req[w].in.pid,
                             field |-> "transactions"]}
    /\ UNCHANGED <<clock, nextRid>>

\* Time passes between two readings of datetime.now.
Tick ==
    /\ clock < MaxClock
    /\ clock' = clock + 1
    /\ UNCHANGED <<req, portfolios, nextRid, acked>>

\* -------------------------------------------------------------------- summary

\* coin_ids = list({h.get("coin_id") for h in holdings if h.get("coin_id")})
HoldingCoinIds(holdings) ==
    {holdings[i].coin_id : i \in 1..Len(holdings)} \ {""}

\* The holdings loop keeping one row per coin id (amounts added up).
RECURSIVE ValueHoldingsMerged(_, _, _)
ValueHoldingsMerged(holdings, prices, acc) ==
    IF holdings = <<>> THEN acc
    ELSE LET h == Head(holdings)
             price == IF h.coin_id \in DOMAIN prices THEN prices[h.coin_id] ELSE 0
             value == h.amount * price
             seen == {i \in 1..Len(acc.items) : acc.items[i].coin_id = h.coin_id}
             item == [coin_id |-> h.coin_id, symbol |-> h.symbol,
                      amount |-> h.amount, price |-> price, value |-> value]
         IN  ValueHoldingsMerged(Tail(holdings), prices,
               [total_value |-> acc.total_value + value,
                items |-> IF seen = {} THEN Append(acc.items, item)
                          ELSE LET i == CHOOSE j \in seen : TRUE
                               IN  [acc.items EXCEPT
                                      ![i].amount = @ + h.amount,
                                      ![i].value = @ + value]])

\* for h in holdings: price = float(prices.get(cid, 0)); value = amt * price;
\* total_value += value; items.append({...})
RECURSIVE ValueHoldings(_, _, _)
ValueHoldings(holdings, prices, acc) ==
    IF holdings = <<>> THEN acc
    ELSE LET h == Head(holdings)
             price == IF h.coin_id \in DOMAIN prices THEN prices[h.coin_id] ELSE 0
             value == h.amount * price
         IN  ValueHoldings(Tail(holdings), prices,
               [total_value |-> acc.total_value + value,
                items |-> Append(acc.items,
                            [coin_id |-> h.coin_id, symbol |-> h.symbol,
                             amount |-> h.amount, price |-> price,
                             value |-> value])])

\* Insert t into a sequence sorted by timestamp descending, after every entry
\* whose timestamp is not smaller (sorted() is stable, also with reverse=True).
RECURSIVE InsertDesc(_, _)
InsertDesc(sorted, t) ==
    IF sorted = <<>> THEN <<t>>
    ELSE IF Head(sorted).timestamp >= t.timestamp
         THEN <<Head(sorted)>> \o InsertDesc(Tail(sorted), t)
         ELSE <<t>> \o sorted

\* The transactions left in stored order (no sort).
SortedDescStored(txs) == txs

\* sorted(txs, key=lambda x: x.get("timestamp", ...), reverse=True)
RECURSIVE SortedDesc(_)
SortedDesc(txs) ==
    IF txs = <<>> THEN <<>>
    ELSE InsertDesc(SortedDesc(SubSeq(txs, 1, Len(txs) - 1)), txs[Len(txs)])

\* [:20]
Truncate(seq) == SubSeq(seq, 1, IF Len(seq) < SummaryTxLimit THEN Len(seq)
                                ELSE SummaryTxLimit)

\* portfolio_summary: find_one (400, 404), one coingecko_price call for the
\* distinct coin ids (none when there are no holdings; its exception is not
\* caught: a 500), the holdings loop, the 20 latest transactions.
PortfolioSummary(w, pid, sp) ==
    /\ req[w].pc = "idle"
    /\ LET r == [Idle EXCEPT !.op = "portfolio_summary", !.in = [pid |-> pid]]
       IN  req' = [req EXCEPT ![w] =
             IF ~IsObjectId(pid) THEN Done(r, 400, <<>>)
             ELSE IF pid \notin DOMAIN portfolios THEN Done(r, 404, <<>>)
             ELSE LET doc == portfolios[pid]
                      coin_ids == HoldingCoinIds(doc.holdings)
                      asked == coin_ids # {}
                      prices == IF asked THEN sp.prices ELSE <<>>
                      v == ValueHoldings(doc.holdings, prices,
                                         [total_value |-> 0, items |-> <<>>])
                      r1 == [r EXCEPT !.calls = IF asked THEN 1 ELSE 0,
                                      !.trace = <<[prices |-> prices]>>]
                  IN  IF asked /\ ~sp.ok THEN Done(r1, 500, <<>>)
                      ELSE Done(r1, 200,
                             [total_value |-> v.total_value,
                              holdings |-> v.items,
                              transactions |->
                                  Truncate(SortedDesc(doc.transactions))])]
    /\ UNCHANGED <<portfolios, clock, nextRid, acked>>

\* The response has been sent; the worker takes the next request.
Respond(w) ==
    /\ req[w].pc = "done"
    /\ req' = [req EXCEPT ![w] = Idle]
    /\ UNCHANGED <<portfolios, clock, nextRid, acked>>

PageInputs == {0, 1}
PerPageInputs == {0, 250, 251}
DaysInputs == {0, 1, 365, 366, 400}

Init ==
    /\ req = [w \in Workers |-> Idle]
    /\ portfolios = <<>>
    /\ clock = 0
    /\ nextRid = 1
    /\ acked = {}

Next ==
    \/ \E page \in PageInputs, per_page \in PerPageInputs, cgOk \in BOOLEAN,
          cg \in CoinLists(MaxRows) :
            GetMarketsStart("w1", page, per_page, cgOk, cg)
    \/ \E b \in TickerResponses : GetMarketsRow("w1", b)
    \/ GetMarketsReturn("w1")
    \/ \E dataOk \in BOOLEAN, data \in Coins, b \in TickerResponses :
          \E sp \in PriceOutcomes({data.id}) :
            GetCoin("w1", dataOk, data, b, sp)
    \/ \E days \in DaysInputs, ok \in BOOLEAN : CoinHistory("w1", days, ok)
    \/ Respond("w1")

Spec == Init /\ [][Next]_vars

\* The portfolio endpoints, two workers serving requests concurrently, all
\* within one instant of the clock.
NextStore ==
    \/ \E w \in Workers :
          \/ CreatePortfolio(w)
          \/ /\ nextRid <= MaxReq
             /\ \E pid \in PidInputs, h \in HoldingInputs : AddHoldingFind(w, pid, h)
          \/ AddHoldingPush(w)
          \/ /\ nextRid <= MaxReq
             /\ \E pid \in PidInputs, type \in TxTypeInputs :
                   AddTransactionFind(w, pid, TxInput(type))
          \/ AddTransactionPush(w)
          \/ \E pid \in PidInputs :
                \E sp \in PriceOutcomes(IF pid \in DOMAIN portfolios
                                        THEN HoldingCoinIds(portfolios[pid].holdings)
                                        ELSE {}) :
                   PortfolioSummary(w, pid, sp)
          \/ Respond(w)

SpecStore == Init /\ [][NextStore]_vars

\* add_transaction and portfolio_summary on one portfolio, long enough for
\* the summary's limit of 20 to cut: the first BaseTx transactions are added
\* by one worker, one request after the other, before the clock first
\* advances; from then on both workers serve requests and time passes.
Warm == nextRid > BaseTx

NextTx ==
    \/ \E w \in IF Warm THEN Workers ELSE {"w1"} :
          \/ CreatePortfolio(w)
          \/ /\ nextRid <= MaxTx
             /\ \E type \in {"deposit", "bogus"} :
                   AddTransactionFind(w, "p1", TxInput(type))
          \/ AddTransactionPush(w)
          \/ PortfolioSummary(w, "p1", [ok |-> TRUE, prices |-> <<>>])
          \/ Respond(w)
    \/ Warm /\ Tick

SpecTx == Init /\ [][NextTx]_vars

\* Every endpoint that validates its input, one worker serving the requests
\* one after the other, all within one instant of the clock.
NextInput ==
    \/ \E page \in PageInputs, per_page \in PerPageInputs, cgOk \in BOOLEAN,
          cg \in CoinLists(MaxRowsInput) :
            GetMarketsStart("w1", page, per_page, cgOk, cg)
    \/ \E b \in TickerResponses : GetMarketsRow("w1", b)
    \/ GetMarketsReturn("w1")
    \/ \E days \in DaysInputs, ok \in BOOLEAN : CoinHistory("w1", days, ok)
    \/ CreatePortfolio("w1")
    \/ /\ nextRid <= MaxReqInput
       /\ \E pid \in PidInputs, type \in TxTypeInputs :
             AddTransactionFind("w1", pid, TxInput(type))
    \/ AddTransactionPush("w1")
    \/ Respond("w1")

SpecInput == Init /\ [][NextInput]_vars

\* ------------------------------------------------- reconciliation: claims

\* The ticker query of a trace entry succeeded with a valid last-price field.
TickerValid(t) ==
    t.asked /\ t.b # Null /\ Val(t.b).lastPrice.kind = "num"

\* Every reconciliation a request in req has performed: the ticker response
\* it saw (b, Null when the exchange was not asked or failed), what it
\* returned and what the fallback values were.
MarketsReconciled ==
    UNION { { [symbol |-> req[w].cg[i].symbol,
               asked |-> req[w].trace[i].asked,
               b |-> req[w].trace[i].b,
               divided |-> req[w].trace[i].divided,
               price |-> req[w].results[i].current_price,
               change |-> req[w].results[i].price_change_percentage_24h,
               binance_symbol |-> req[w].results[i].binance_symbol,
               fbPrice |-> req[w].cg[i].current_price,
               fbChange |-> req[w].cg[i].price_change_percentage_24h] :
                 i \in {j \in 1..Len(req[w].results) : j <= Len(req[w].trace)} } :
            w \in {v \in Workers : req[v].op = "get_markets"} }

CoinReconciled ==
    { [symbol |-> req[w].body.symbol,
       asked |-> req[w].trace[1].asked,
       b |-> req[w].trace[1].b,
       divided |-> req[w].trace[1].divided,
       price |-> req[w].body.current_price,
       change |-> req[w].body.price_change_percentage_24h,
       binance_symbol |-> Null,
       fbPrice |-> IF req[w].trace[1].sp.ok
                   THEN PriceGet(req[w].trace[1].sp.prices, req[w].in.coin_id)
                   ELSE Null,
       fbChange |-> Null] :
         w \in {v \in Workers : req[v].op = "get_coin" /\ req[v].status = 200} }

Reconciled == MarketsReconciled \cup CoinReconciled

\* C1 as stated: a market row's binance_symbol is uppercase(symbol)+"USDT"
\* exactly when the ticker query succeeded with a valid last-price field, and
\* is null otherwise.
C1_SymbolOnlyOnSuccess ==
    \A e \in MarketsReconciled :
        IF TickerValid(e)
        THEN e.binance_symbol = Some(Upper(e.symbol) \o USDT)
        ELSE e.binance_symbol = Null

\* C1 as amended: a market row's binance_symbol is uppercase(symbol)+"USDT"
\* exactly when the coin's symbol is non-empty, whatever the ticker query
\* returned, and is null exactly when the symbol is empty.
C1_SymbolIffNonEmpty ==
    \A e \in MarketsReconciled :
        IF e.symbol # <<>>
        THEN e.binance_symbol = Some(Upper(e.symbol) \o USDT)
        ELSE e.binance_symbol = Null

\* A returned market row whose ticker query failed and whose binance_symbol
\* is set all the same.
C1_Witness ==
    \E w \in Workers :
        /\ req[w].op = "get_markets" /\ req[w].pc = "done" /\ req[w].status = 200
        /\ \E i \in 1..Len(req[w].body) :
              /\ req[w].trace[i].asked
              /\ req[w].trace[i].b = Null
              /\ req[w].body[i].binance_symbol = Some(<<"B", "T", "C">> \o USDT)

\* C2: the reconciled price is the ticker's parsed last price when the ticker
\* query succeeded with a valid last-price field and the fallback otherwise;
\* a request that reached the exchange step answers 200, never 502.
C2_PriceSource ==
    /\ \A e \in Reconciled :
          e.price = IF TickerValid(e) THEN Some(Val(e.b).lastPrice.val)
                    ELSE e.fbPrice
    /\ \A w \in Workers :
          (req[w].op \in {"get_markets", "get_coin"} /\ req[w].pc = "done"
             /\ req[w].trace # <<>>) => req[w].status = 200

\* A returned market page with one row priced by the ticker and one row whose
\* ticker query failed, priced by the aggregator.
C2_Witness ==
    \E w \in Workers :
        /\ req[w].op = "get_markets" /\ req[w].pc = "done" /\ req[w].status = 200
        /\ Len(req[w].body) = 2
        /\ TickerValid(req[w].trace[1])
        /\ req[w].body[1].current_price = Some(3)
        /\ req[w].trace[2].asked /\ req[w].trace[2].b = Null
        /\ req[w].body[2].current_price = req[w].cg[2].current_price

\* The open price of a ticker response is 0 or absent.
OpenZero(b) ==
    b # Null /\ (Val(b).openPrice.kind = "absent"
                   \/ (Val(b).openPrice.kind = "num" /\ Val(b).openPrice.val = 0))

\* C3: when the ticker's open price is 0 or absent the division by the open
\* price is not evaluated and the returned change is the fallback value.
C3_NoDivisionByZeroOpen ==
    \A e \in Reconciled :
        (e.asked /\ OpenZero(e.b)) => (~e.divided /\ e.change = e.fbChange)

\* A returned market row whose ticker has a valid last price and open price
\* 0: the price is the ticker's, the change the aggregator's.
C3_Witness ==
    \E w \in Workers :
        /\ req[w].op = "get_markets" /\ req[w].pc = "done" /\ req[w].status = 200
        /\ \E i \in 1..Len(req[w].body) :
              /\ req[w].trace[i].b = Some([lastPrice |-> Num(3), openPrice |-> Num(0)])
              /\ req[w].body[i].current_price = Some(3)
              /\ req[w].body[i].price_change_percentage_24h = Some(5)

\* C4: get_markets produces one row per aggregator entry, in the aggregator's
\* order, row i carrying the id of entry i: while the loop runs the rows are
\* those of the entries processed so far, and the returned body has the
\* length of the aggregator list.
C4_RowsOneToOne ==
    \A w \in Workers :
        req[w].op = "get_markets" =>
            /\ Len(req[w].results) = Len(req[w].trace)
            /\ Len(req[w].results) <= Len(req[w].cg)
            /\ \A i \in 1..Len(req[w].results) :
                  req[w].results[i].id = req[w].cg[i].id
            /\ (req[w].pc = "done" /\ req[w].status = 200) =>
                  /\ req[w].body = req[w].results
                  /\ Len(req[w].body) = Len(req[w].cg)

\* A returned page of two different coins whose first ticker query failed
\* and whose second succeeded.
C4_Witness ==
    \E w \in Workers :
        /\ req[w].op = "get_markets" /\ req[w].pc = "done" /\ req[w].status = 200
        /\ Len(req[w].cg) = 2
        /\ req[w].cg[1].id = "dogecoin" /\ req[w].cg[2].id = "bitcoin"
        /\ req[w].trace[1].b = Null /\ TickerValid(req[w].trace[2])
        /\ req[w].body[1].id = "dogecoin" /\ req[w].body[2].id = "bitcoin"

\* A field of the ticker response failed to parse: the last price, or the
\* open price once the last price had parsed.
ParseFailed(e) ==
    /\ e.asked /\ e.b # Null
    /\ \/ Val(e.b).lastPrice.kind = "bad"
       \/ Val(e.b).lastPrice.kind = "num" /\ Val(e.b).openPrice.kind = "bad"

\* C10 as stated: after a parse failure on the last price or on the open
\* price, the returned price and change are both the fallback values.
C10_ParseFailureIsFullFallback ==
    \A e \in Reconciled :
        ParseFailed(e) => (e.price = e.fbPrice /\ e.change = e.fbChange)

\* C10 as amended: a parse failure is never propagated (the request answers
\* 200) and the change is the fallback value; the price is the fallback
\* value when the last price failed to parse, and the ticker's last price
\* when only the open price failed to parse.
C10_ParseFailureKeepsParsedPrice ==
    /\ \A e \in Reconciled :
          ParseFailed(e) =>
              /\ e.change = e.fbChange
              /\ ~e.divided
              /\ e.price = IF Val(e.b).lastPrice.kind = "bad" THEN e.fbPrice
                           ELSE Some(Val(e.b).lastPrice.val)
    /\ \A w \in Workers :
          (req[w].op \in {"get_markets", "get_coin"} /\ req[w].pc = "done"
             /\ \E i \in 1..Len(req[w].trace) : ParseFailed(req[w].trace[i]))
          => req[w].status = 200

\* A returned coin detail whose ticker had a parsable last price and an
\* unparsable open price: the price is the ticker's, the change null.
C10_Witness ==
    \E w \in Workers :
        /\ req[w].op = "get_coin" /\ req[w].pc = "done" /\ req[w].status = 200
        /\ req[w].trace[1].b = Some([lastPrice |-> Num(3), openPrice |-> Bad])
        /\ req[w].body.current_price = Some(3)
        /\ req[w].body.price_change_percentage_24h = Null

\* ------------------------------------------------------------ store: claims

\* A 400-equivalent status: the handler's own 400, or the 422 of a request
\* whose parameters fail their declared bounds.
ClientError(status) == status \in {400, 422}

\* Worker w takes up a request of endpoint op in this step.
Starts(w, op) == req[w].pc = "idle" /\ req'[w].op = op /\ req'[w].pc # "idle"

\* C5 as stated: add_holding with a negative amount on an existing portfolio
\* is answered with a 400-equivalent error and changes nothing in the store.
C5_NegativeAmountRejectedAs400 ==
    [][\A w \in Workers :
          (/\ Starts(w, "add_holding")
           /\ req'[w].in.amount < 0
           /\ req'[w].in.pid \in DOMAIN portfolios)
          => (/\ req'[w].pc = "done"
              /\ ClientError(req'[w].status)
              /\ portfolios' = portfolios)]_vars

RECURSIVE SumValues(_)
SumValues(items) ==
    IF items = <<>> THEN 0 ELSE Head(items).value + SumValues(Tail(items))

\* C6: a summary answered 200 has one holding row per stored holding, in
\* stored order, each with value = amount * price, where price is the
\* batch-fetched price of its coin id (0 when the batch has none), and
\* total_value is the sum of the row values.
C6_SummaryValuesEachHolding ==
    [][\A w \in Workers :
          (Starts(w, "portfolio_summary") /\ req'[w].status = 200) =>
              LET stored == portfolios[req'[w].in.pid].holdings
                  prices == req'[w].trace[1].prices
                  rows == req'[w].body.holdings
              IN  /\ Len(rows) = Len(stored)
                  /\ \A i \in 1..Len(stored) :
                        /\ rows[i].coin_id = stored[i].coin_id
                        /\ rows[i].symbol = stored[i].symbol
                        /\ rows[i].amount = stored[i].amount
                        /\ rows[i].price = IF stored[i].coin_id \in DOMAIN prices
                                           THEN prices[stored[i].coin_id] ELSE 0
                        /\ rows[i].value = stored[i].amount * rows[i].price
                  /\ req'[w].body.total_value = SumValues(rows)]_vars

\* The summary of holdings [{bitcoin, 2}, {ethereum, 10}] at prices 50000 and
\* 3000: rows 100000 and 30000, total 130000.
C6_Witness ==
    \E w \in Workers :
        /\ req[w].op = "portfolio_summary" /\ req[w].pc = "done"
        /\ req[w].status = 200
        /\ Len(req[w].body.holdings) = 2
        /\ req[w].body.holdings[1].coin_id = "bitcoin"
        /\ req[w].body.holdings[1].value = 100000
        /\ req[w].body.holdings[2].coin_id = "ethereum"
        /\ req[w].body.holdings[2].value = 30000
        /\ req[w].body.total_value = 130000

\* C7: a summary answered 200 lists min(n, 20) of the n stored transactions,
\* each once, sorted by timestamp descending, and no stored transaction left
\* out has a timestamp later than one listed.
C7_Latest20Descending ==
    [][\A w \in Workers :
          (Starts(w, "portfolio_summary") /\ req'[w].status = 200) =>
              LET stored == portfolios[req'[w].in.pid].transactions
                  out == req'[w].body.transactions
                  listed == {out[i].rid : i \in 1..Len(out)}
              IN  /\ Len(out) = IF Len(stored) < 20 THEN Len(stored) ELSE 20
                  /\ Cardinality(listed) = Len(out)
                  /\ \A i \in 1..Len(out) :
                        \E k \in 1..Len(stored) : stored[k] = out[i]
                  /\ \A i, j \in 1..Len(out) :
                        i < j => out[i].timestamp >= out[j].timestamp
                  /\ \A k \in 1..Len(stored) :
                        stored[k].rid \notin listed =>
                            \A i \in 1..Len(out) :
                                stored[k].timestamp <= out[i].timestamp]_vars

\* A summary of 20 transactions, not all of one instant, of a portfolio that
\* stores more than 20 and stores them out of timestamp order.
C7_Witness ==
    \E w \in Workers :
        /\ req[w].op = "portfolio_summary" /\ req[w].pc = "done"
        /\ req[w].status = 200
        /\ Len(req[w].body.transactions) = 20
        /\ req[w].body.transactions[1].timestamp
             > req[w].body.transactions[20].timestamp
        /\ LET stored == portfolios[req[w].in.pid].transactions
           IN  /\ Len(stored) > 20
               /\ \E i, j \in 1..Len(stored) :
                     i < j /\ stored[i].timestamp > stored[j].timestamp

\* C8: a request with invalid input is answered with a 400-equivalent error
\* in the step that takes it up, with no upstream call issued and the store
\* as it was: coin history with days outside [1, 365], markets with page < 1
\* or per_page outside [1, 250], add_transaction with a type other than
\* deposit or withdrawal, whether or not the portfolio exists.
C8_InvalidInputRejectedFirst ==
    [][\A w \in Workers :
          (\/ /\ Starts(w, "coin_history")
              /\ (req'[w].in.days < 1 \/ req'[w].in.days > 365)
           \/ /\ Starts(w, "get_markets")
              /\ (req'[w].in.page < 1 \/ req'[w].in.per_page < 1
                    \/ req'[w].in.per_page > 250)
           \/ /\ Starts(w, "add_transaction")
              /\ req'[w].in.type \notin {"deposit", "withdrawal"})
          => (/\ req'[w].pc = "done"
              /\ ClientError(req'[w].status)
              /\ req'[w].calls = 0
              /\ portfolios' = portfolios
              /\ acked' = acked)]_vars

\* The answer to coin history with days = 400: a 422 with no call issued.
C8_Witness ==
    \E w \in Workers :
        /\ req[w].op = "coin_history" /\ req[w].pc = "done"
        /\ req[w].in.days = 400
        /\ req[w].status = 422
        /\ req[w].calls = 0

IsPrefix(s, t) == Len(s) <= Len(t) /\ SubSeq(t, 1, Len(s)) = s

Fields == {"holdings", "transactions"}

\* C9: every append request answered ok has its element exactly once in its
\* array, each array is as long as the number of append requests answered
\* ok for it, and a step only ever extends the arrays at their end.
C9_AppendsAreAtomic ==
    [][/\ \A a \in acked' :
             Cardinality({i \in 1..Len(portfolios'[a.pid][a.field]) :
                            portfolios'[a.pid][a.field][i].rid = a.rid}) = 1
       /\ \A p \in DOMAIN portfolios' : \A f \in Fields :
             Len(portfolios'[p][f]) =
                 Cardinality({a \in acked' : a.pid = p /\ a.field = f})
       /\ \A p \in DOMAIN portfolios :
             /\ p \in DOMAIN portfolios'
             /\ \A f \in Fields : IsPrefix(portfolios[p][f], portfolios'[p][f])]_vars

\* Both workers answered ok, one for a holding and one for a transaction,
\* after a third append whose push overtook an earlier request's.
C9_Witness ==
    \E w, v \in Workers :
        /\ req[w].op = "add_holding" /\ req[w].pc = "done" /\ req[w].status = 200
        /\ req[v].op = "add_transaction" /\ req[v].pc = "done" /\ req[v].status = 200
        /\ LET doc == portfolios[req[w].in.pid]
           IN  /\ req[v].in.pid = req[w].in.pid
               /\ Len(doc.holdings) = 2
               /\ doc.holdings[1].rid > doc.holdings[2].rid
               /\ Len(doc.transactions) = 1

====
